---- MODULE Spec2Model ----
(***************************************************************************)
(* The Discord notifier of easeprobe (notify/discord/discord.go).          *)
(*                                                                         *)
(* A call of Notify or NotifyStat renders a Discord payload, and either    *)
(* logs it (dry mode) or posts it to the webhook and logs the outcome.     *)
(* Each call runs in its own goroutine slot c \in Calls; the only point    *)
(* where a call blocks is client.Do, so a call is cut into the steps       *)
(*   Notify / NotifyStat      entry, dry branch, rendering                 *)
(*   SendDiscordNotification  json.Marshal, http.NewRequest, POST issued   *)
(*   ClientDo                 the response (or fault) and the status test  *)
(*   NotifyReturn / NotifyStatReturn   the logging after the send          *)
(***************************************************************************)
EXTENDS Integers, Sequences, FiniteSets, TLC

\* ------------------------------------------------------------------ bounds
NCalls == 2           \* goroutine slots that may call the notifier
MaxProbers == 11      \* longest prober list handed to NotifyStat (Spec)
MaxConcProbers == 1   \* longest prober list in the concurrent specification
NProbers == 4         \* distinct probe results handed to Notify

Calls == 1..NCalls
Caller == CHOOSE c \in Calls : \A d \in Calls : c <= d
Nil == [ kind |-> "nil" ]   \* the nil error, the absent value

\* ------------------------------------------------------- program constants
Green == 1091331
Red == 10945283
Blue == 239
StatusNoContent == 204
MaxEmbeds == 10
Millisecond == 1000000
Second == 1000000000

Username == "Easeprobe"
Favicon == "https://megaease.cn/favicon.png"
ReportContent == "**Overall SLA Report**"
Kind == "discord"

\* ------------------------------------------------ the probe package (inputs)
StatusUp == "up"
StatusDown == "down"
StatusUnknown == "unknown"
StatusInit == "init"
StatusCycle == <<StatusUp, StatusDown, StatusUnknown, StatusInit>>

\* The result of the i-th prober of the monitored configuration.
ProbeResult(i) ==
    [ Name          |-> <<"probe", i>>,
      Endpoint      |-> <<"endpoint", i>>,
      Status        |-> StatusCycle[((i - 1) % Len(StatusCycle)) + 1],
      Message       |-> <<"message", i>>,
      RoundTripTime |-> 1234567 * i,
      StartTime     |-> 1600000000 + i,
      TimeFormat    |-> "2006-01-02 15:04:05 UTC",
      Stat          |-> [ UpTime |-> 1499999999, DownTime |-> 500000000,
                          Total |-> i ] ]

Results == { ProbeResult(i) : i \in 1..NProbers }

\* The first k probers of the configuration, for every k up to n.
ProberPrefixes(n) == { [ i \in 1..k |-> ProbeResult(i) ] : k \in 0..n }

\* Prober lists of every length up to n, in both orders of the configuration.
ProberLists(n) ==
    ProberPrefixes(n) \cup { [ i \in 1..k |-> ProbeResult(k + 1 - i) ] : k \in 0..n }

\* NotifyConfig values: the webhook URL either parses as a URL or does not.
GoodURL == "https://discord.com/api/webhooks/1/token"
BadURL == ":not a url"
Configs == [ WebhookURL : {GoodURL, BadURL}, Dry : BOOLEAN ]

\* What client.Do can come back with: a transport fault or a response.
StatusCodes == {200, StatusNoContent, 500}
Bodies == {"", "bad request"}
TransportFault == [ kind |-> "transport", cause |-> "timeout" ]
Responses ==
    { [ fault |-> TransportFault, status |-> 0, body |-> "" ] } \cup
    { [ fault |-> Nil, status |-> s, body |-> b ] : s \in StatusCodes, b \in Bodies }

\* A success and a refusal: what concurrent calls are answered with.
ConcResponses ==
    { [ fault |-> Nil, status |-> StatusNoContent, body |-> "" ],
      [ fault |-> Nil, status |-> 500, body |-> "bad request" ] }

\* --------------------------------------------------------- library helpers
\* fmt.Sprintf: the format and the arguments it interpolates.
Sprintf(format, args) == [ format |-> format, args |-> args ]

\* time.Duration.Round for non-negative durations: halfway values round up.
Round(d, unit) == ((d + (unit \div 2)) \div unit) * unit

Emoji(status) == <<"emoji", status>>
String(status) == <<"string", status>>
Title(result) == <<"title", result.Name, result.Status>>
SLA(result) == <<"sla", result.Stat>>
StatStatusText(stat) == <<"markdown", stat>>
FormatUTC(t, layout) == <<"utc", t, layout>>

\* log.Infof / log.Errorf / log.Infoln: one line of the sink.  Arguments
\* beyond the verbs of the format are still printed (as %!(EXTRA ...)).
Infof(format, args) == [ level |-> "info", format |-> format, args |-> args ]
Errorf(format, args) == [ level |-> "error", format |-> format, args |-> args ]

\* The arguments handed to the log calls, with their dynamic types.
Str(x) == [ type |-> "string", v |-> x ]
Doc(json) == [ type |-> "json", v |-> json ]
Struct(discord) == [ type |-> "Discord", v |-> discord ]
Err(e) == [ type |-> "error", v |-> e ]
Cfg(config) == [ type |-> "NotifyConfig", v |-> config ]

\* ------------------------------------------------------ the payload structs
\* A struct tag as the characters between the back quotes, cut into tokens.
Tag(name) == <<"json", ":", "\"", name, "\"">>
ThumbnailTags == [ URL |-> Tag("url") ]
FieldsTags == [ Name |-> Tag("name"), Value |-> Tag("value"), Inline |-> Tag("inline") ]
FooterTags == [ Text |-> Tag("text"), IconURL |-> Tag("icon_url") ]
AuthorTags ==
    [ Name    |-> Tag("name"),
      URL     |-> <<"json", ":", "\"", "url">>,
      IconURL |-> <<"json", ":", "icon_url">> ]
EmbedTags ==
    [ Author |-> Tag("author"), Title |-> Tag("title"), URL |-> Tag("url"),
      Color |-> Tag("color"), Description |-> Tag("description"),
      Timestamp |-> Tag("timestamp"), Thumbnail |-> Tag("thumbnail"),
      Fields |-> Tag("fields"), Footer |-> Tag("footer") ]
DiscordTags ==
    [ Username |-> Tag("username"), AvatarURL |-> Tag("avatar_url"),
      Content |-> Tag("content"), Embeds |-> Tag("embeds") ]

\* The zero values Author{}, Thumbnail{}, Footer{}.
ZeroAuthor == [ Name |-> "", URL |-> "", IconURL |-> "" ]
ZeroThumbnail == [ URL |-> "" ]
ZeroFooter == [ Text |-> "", IconURL |-> "" ]

\* ------------------------------------------------------------ encoding/json
\* The json key of a struct tag: the quoted value after json: when the tag is
\* well formed, and no key otherwise.
TagLookup(tag) ==
    IF /\ Len(tag) = 5
       /\ tag[1] = "json" /\ tag[2] = ":" /\ tag[3] = "\"" /\ tag[5] = "\""
    THEN tag[4]
    ELSE ""

\* A field without a json key is written under its Go field name.
JSONName(field, tags) ==
    IF TagLookup(tags[field]) = "" THEN field ELSE TagLookup(tags[field])

EncodeStruct(value, tags) ==
    [ k \in { JSONName(f, tags) : f \in DOMAIN tags } |->
        value[CHOOSE f \in DOMAIN tags : JSONName(f, tags) = k] ]

EncodeEmbed(e) ==
    EncodeStruct(
        [ e EXCEPT !.Author = EncodeStruct(@, AuthorTags),
                   !.Thumbnail = EncodeStruct(@, ThumbnailTags),
                   !.Fields = [ i \in DOMAIN @ |-> EncodeStruct(@[i], FieldsTags) ],
                   !.Footer = EncodeStruct(@, FooterTags) ],
        EmbedTags)

Encode(discord) ==
    EncodeStruct(
        [ discord EXCEPT !.Embeds = [ i \in DOMAIN @ |-> EncodeEmbed(@[i]) ] ],
        DiscordTags)

MarshalError == [ kind |-> "json", cause |-> "unsupported value" ]

\* json.Marshal(discord): the document, or an error when the encoder rejects
\* the value.
JSONMarshal(discord, enc) ==
    IF enc THEN [ json |-> Encode(discord), err |-> Nil ]
           ELSE [ json |-> Nil, err |-> MarshalError ]

\* ---------------------------------------------------------------- rendering
\* NewDiscord turning red for StatusDown only.
NewDiscordRedWhenDown(result) ==
    LET color == IF result.Status = StatusDown THEN Red ELSE Green
        rtt == Round(result.RoundTripTime, Millisecond)
        description ==
            Sprintf("%s %s - rtt %s / code block %s",
                    <<Emoji(result.Status), result.Endpoint, rtt, result.Message>>)
    IN  [ Username |-> Username, AvatarURL |-> Favicon, Content |-> "",
          Embeds |-> <<
            [ Author      |-> ZeroAuthor,
              Title       |-> Title(result),
              URL         |-> "",
              Color       |-> color,
              Description |-> description,
              Timestamp   |-> FormatUTC(result.StartTime, "RFC3339"),
              Thumbnail   |-> [ URL |-> Favicon ],
              Fields      |-> <<>>,
              Footer      |-> [ Text |-> "Probed at", IconURL |-> Favicon ] ] >> ]

NewDiscord(result) ==
    LET color == IF result.Status # StatusUp THEN Red ELSE Green
        rtt == Round(result.RoundTripTime, Millisecond)
        description ==
            Sprintf("%s %s - rtt %s / code block %s",
                    <<Emoji(result.Status), result.Endpoint, rtt, result.Message>>)
        empty ==
            [ Username |-> Username, AvatarURL |-> Favicon, Content |-> "",
              Embeds |-> <<>> ]
    IN  [ empty EXCEPT !.Embeds = Append(@,
            [ Author      |-> ZeroAuthor,
              Title       |-> Title(result),
              URL         |-> "",
              Color       |-> color,
              Description |-> description,
              Timestamp   |-> FormatUTC(result.StartTime, "RFC3339"),
              Thumbnail   |-> [ URL |-> Favicon ],
              Fields      |-> <<>>,
              Footer      |-> [ Text |-> "Probed at", IconURL |-> Favicon ] ]) ]

NewEmbed(result) ==
    LET desc ==
            Sprintf("Availability Up %s Down %s SLA %.2f Total %d ( %s ) Latest %s | %s %s",
                    << Round(result.Stat.UpTime, Second),
                       Round(result.Stat.DownTime, Second),
                       SLA(result),
                       result.Stat.Total,
                       StatStatusText(result.Stat),
                       FormatUTC(result.StartTime, result.TimeFormat),
                       <<Emoji(result.Status), " ", String(result.Status)>>,
                       result.Message >>)
    IN  [ Author      |-> ZeroAuthor,
          Title       |-> Sprintf("%s - %s", <<result.Name, result.Endpoint>>),
          URL         |-> "",
          Color       |-> Blue,
          Description |-> desc,
          Timestamp   |-> "",
          Thumbnail   |-> ZeroThumbnail,
          Fields      |-> <<>>,
          Footer      |-> ZeroFooter ]

\* The loop of NewEmbeds: append one embed per prober, in range order.
RECURSIVE AppendEmbeds(_, _, _)
AppendEmbeds(embeds, probers, i) ==
    IF i > Len(probers) THEN embeds
    ELSE AppendEmbeds(Append(embeds, NewEmbed(probers[i])), probers, i + 1)

\* NewEmbeds with the loop starting at the second prober.
NewEmbedsFromSecond(probers) ==
    [ Username |-> Username, AvatarURL |-> Favicon, Content |-> ReportContent,
      Embeds |-> AppendEmbeds(<<>>, probers, 2) ]

NewEmbeds(probers) ==
    [ Username |-> Username, AvatarURL |-> Favicon, Content |-> ReportContent,
      Embeds |-> AppendEmbeds(<<>>, probers, 1) ]

\* ------------------------------------------------------------------ logging
\* DryNotify writing the payload at error level.
DryNotifyAtErrorLevel(result, enc) ==
    LET m == JSONMarshal(NewDiscord(result), enc)
    IN  IF m.err # Nil THEN << Errorf("error : %v", <<Err(m.err)>>) >>
        ELSE << Errorf("[%s] Dry notify - %s", <<Str(Kind), Doc(m.json)>>) >>

\* DryNotify and DryNotifyStat: the lines a dry call writes.
DryNotify(result, enc) ==
    LET m == JSONMarshal(NewDiscord(result), enc)
    IN  IF m.err # Nil THEN << Errorf("error : %v", <<Err(m.err)>>) >>
        ELSE << Infof("[%s] Dry notify - %s", <<Str(Kind), Doc(m.json)>>) >>

DryNotifyStat(probers, enc) ==
    LET m == JSONMarshal(NewEmbeds(probers), enc)
    IN  IF m.err # Nil THEN << Errorf("error : %v", <<Err(m.err)>>) >>
        ELSE << Infof("[%s] Dry notify - %s", <<Str(Kind), Doc(m.json)>>) >>

\* Notify without the return that ends the failure branch.
NotifyLogFallThrough(config, result, discord, e, enc) ==
    LET success == Infof("Sent the Discord notification for %s (%s)!",
                         <<Str(result.Name), Str(result.Endpoint)>>)
    IN  IF e # Nil
        THEN LET m == JSONMarshal(discord, enc)
             IN  << Errorf("%v", <<Err(e)>>),
                    IF m.err # Nil THEN Errorf("Notify[%s] - %v", <<Str(Kind), Struct(discord)>>)
                    ELSE Errorf("Notify[%s] - %s", <<Str(Kind), Doc(m.json)>>),
                    success >>
        ELSE << success >>

\* Notify after SendDiscordNotification has returned e.
NotifyLog(config, result, discord, e, enc) ==
    IF e # Nil
    THEN LET m == JSONMarshal(discord, enc)
         IN  << Errorf("%v", <<Err(e)>>),
                IF m.err # Nil THEN Errorf("Notify[%s] - %v", <<Str(Kind), Struct(discord)>>)
                ELSE Errorf("Notify[%s] - %s", <<Str(Kind), Doc(m.json)>>) >>
    ELSE << Infof("Sent the Discord notification for %s (%s)!",
                  <<Str(result.Name), Str(result.Endpoint)>>) >>

\* NotifyStat after SendDiscordNotification has returned e.  The second
\* Errorf is given three arguments for two verbs.
NotifyStatLog(config, probers, discord, e, enc) ==
    IF e # Nil
    THEN LET m == JSONMarshal(discord, enc)
         IN  << Errorf("%v", <<Err(e)>>),
                IF m.err # Nil THEN Errorf("Notify[%s] - %v", <<Str(Kind), Struct(discord)>>)
                ELSE Errorf("Notify[%s] - %s", <<Cfg(config), Str(Kind), Doc(m.json)>>) >>
    ELSE << Infof("Sent the Statstics to Slack Successfully!", <<>>) >>

\* --------------------------------------------------------------------- http
URLError == [ kind |-> "url", cause |-> "missing protocol scheme" ]

\* http.NewRequest(POST, url, body), then req.Close and the header.
NewRequest(url, body) ==
    IF url = BadURL THEN [ req |-> Nil, err |-> URLError ]
    ELSE [ req |-> [ Method |-> "POST", URL |-> url, Body |-> body,
                     Close |-> TRUE,
                     Header |-> [ ContentType |-> "application/json" ] ],
           err |-> Nil ]

StatusError(status, body) ==
    [ kind |-> "status",
      text |-> Sprintf("Error response from Discord [%d] - [%s]", <<status, body>>) ]

\* The status test accepting every 2xx status.
ResponseErrorAny2xx(resp) ==
    IF resp.fault # Nil THEN resp.fault
    ELSE IF resp.status < 200 \/ resp.status > 299
         THEN StatusError(resp.status, resp.body)
    ELSE Nil

\* What SendDiscordNotification returns once client.Do has come back.
ResponseError(resp) ==
    IF resp.fault # Nil THEN resp.fault
    ELSE IF resp.status # StatusNoContent THEN StatusError(resp.status, resp.body)
    ELSE Nil

\* -------------------------------------------------------------------- state
VARIABLES
    cfg,        \* the NotifyConfig value
    pc,         \* pc[c]: where call c stands
    kind,       \* kind[c]: "Notify" or "NotifyStat" ("" before the call)
    input,      \* input[c]: the result, or the prober list, the call was given
    encodable,  \* encodable[c]: whether encoding/json accepts the payload
    discord,    \* discord[c]: the call's local payload
    sent,       \* sent[c]: the HTTP requests the call has issued, in order
    reply,      \* reply[c]: what client.Do came back with
    err,        \* err[c]: what SendDiscordNotification returned
    log         \* log[c]: the lines the call has written to the sink, in order

vars == <<cfg, pc, kind, input, encodable, discord, sent, reply, err, log>>

\* The dry flag is never consulted.
DryModeIgnored == FALSE

DryMode == cfg.Dry

Init ==
    /\ cfg \in Configs
    /\ pc = [ c \in Calls |-> "idle" ]
    /\ kind = [ c \in Calls |-> "" ]
    /\ input = [ c \in Calls |-> Nil ]
    /\ encodable = [ c \in Calls |-> TRUE ]
    /\ discord = [ c \in Calls |-> Nil ]
    /\ sent = [ c \in Calls |-> <<>> ]
    /\ reply = [ c \in Calls |-> Nil ]
    /\ err = [ c \in Calls |-> Nil ]
    /\ log = [ c \in Calls |-> <<>> ]

\* ------------------------------------------------------------------ actions
\* Notify building its payload in a variable shared by all calls.
NotifyShared(c, result, enc) ==
    /\ pc[c] = "idle"
    /\ kind' = [ kind EXCEPT ![c] = "Notify" ]
    /\ input' = [ input EXCEPT ![c] = result ]
    /\ encodable' = [ encodable EXCEPT ![c] = enc ]
    /\ discord' = [ k \in Calls |-> NewDiscord(result) ]
    /\ IF DryMode
       THEN /\ log' = [ log EXCEPT ![c] = @ \o DryNotify(result, enc) ]
            /\ pc' = [ pc EXCEPT ![c] = "done" ]
       ELSE /\ log' = log
            /\ pc' = [ pc EXCEPT ![c] = "send" ]
    /\ UNCHANGED <<cfg, sent, reply, err>>

\* Notify(result) up to the call of SendDiscordNotification; the whole call
\* in dry mode.
Notify(c, result, enc) ==
    /\ pc[c] = "idle"
    /\ kind' = [ kind EXCEPT ![c] = "Notify" ]
    /\ input' = [ input EXCEPT ![c] = result ]
    /\ encodable' = [ encodable EXCEPT ![c] = enc ]
    /\ discord' = [ discord EXCEPT ![c] = NewDiscord(result) ]
    /\ IF DryMode
       THEN /\ log' = [ log EXCEPT ![c] = @ \o DryNotify(result, enc) ]
            /\ pc' = [ pc EXCEPT ![c] = "done" ]
       ELSE /\ log' = log
            /\ pc' = [ pc EXCEPT ![c] = "send" ]
    /\ UNCHANGED <<cfg, sent, reply, err>>

\* NotifyStat(probers) up to the call of SendDiscordNotification; the whole
\* call in dry mode.
NotifyStat(c, probers, enc) ==
    /\ pc[c] = "idle"
    /\ kind' = [ kind EXCEPT ![c] = "NotifyStat" ]
    /\ input' = [ input EXCEPT ![c] = probers ]
    /\ encodable' = [ encodable EXCEPT ![c] = enc ]
    /\ discord' = [ discord EXCEPT ![c] = NewEmbeds(probers) ]
    /\ IF DryMode
       THEN /\ log' = [ log EXCEPT ![c] = @ \o DryNotifyStat(probers, enc) ]
            /\ pc' = [ pc EXCEPT ![c] = "done" ]
       ELSE /\ log' = log
            /\ pc' = [ pc EXCEPT ![c] = "send" ]
    /\ UNCHANGED <<cfg, sent, reply, err>>

\* SendDiscordNotification up to client.Do: marshal, build the request and
\* put it on the wire, or return the error.
SendDiscordNotification(c) ==
    /\ pc[c] = "send"
    /\ LET m == JSONMarshal(discord[c], encodable[c])
           r == NewRequest(cfg.WebhookURL, m.json)
       IN  IF m.err # Nil
           THEN /\ err' = [ err EXCEPT ![c] = m.err ]
                /\ pc' = [ pc EXCEPT ![c] = "sent" ]
                /\ sent' = sent
           ELSE IF r.err # Nil
           THEN /\ err' = [ err EXCEPT ![c] = r.err ]
                /\ pc' = [ pc EXCEPT ![c] = "sent" ]
                /\ sent' = sent
           ELSE /\ sent' = [ sent EXCEPT ![c] = Append(@, r.req) ]
                /\ pc' = [ pc EXCEPT ![c] = "waiting" ]
                /\ err' = err
    /\ UNCHANGED <<cfg, kind, input, encodable, discord, reply, log>>

\* client.Do followed by one more POST of the same request after a failure.
ClientDoRetry(c, resp) ==
    /\ pc[c] = "waiting"
    /\ reply' = [ reply EXCEPT ![c] = resp ]
    /\ err' = [ err EXCEPT ![c] = ResponseError(resp) ]
    /\ IF ResponseError(resp) # Nil /\ Len(sent[c]) < 2
       THEN /\ sent' = [ sent EXCEPT ![c] = Append(@, @[1]) ]
            /\ pc' = pc
       ELSE /\ sent' = sent
            /\ pc' = [ pc EXCEPT ![c] = "sent" ]
    /\ UNCHANGED <<cfg, kind, input, encodable, discord, log>>

\* client.Do comes back; SendDiscordNotification reads the body, tests the
\* status and returns.
ClientDo(c, resp) ==
    /\ pc[c] = "waiting"
    /\ reply' = [ reply EXCEPT ![c] = resp ]
    /\ err' = [ err EXCEPT ![c] = ResponseError(resp) ]
    /\ pc' = [ pc EXCEPT ![c] = "sent" ]
    /\ UNCHANGED <<cfg, kind, input, encodable, discord, sent, log>>

\* Notify from the return of SendDiscordNotification to its own return.
NotifyReturn(c) ==
    /\ pc[c] = "sent"
    /\ kind[c] = "Notify"
    /\ log' = [ log EXCEPT ![c] =
                  @ \o NotifyLog(cfg, input[c], discord[c], err[c], encodable[c]) ]
    /\ pc' = [ pc EXCEPT ![c] = "done" ]
    /\ UNCHANGED <<cfg, kind, input, encodable, discord, sent, reply, err>>

\* NotifyStat from the return of SendDiscordNotification to its own return.
NotifyStatReturn(c) ==
    /\ pc[c] = "sent"
    /\ kind[c] = "NotifyStat"
    /\ log' = [ log EXCEPT ![c] =
                  @ \o NotifyStatLog(cfg, input[c], discord[c], err[c], encodable[c]) ]
    /\ pc' = [ pc EXCEPT ![c] = "done" ]
    /\ UNCHANGED <<cfg, kind, input, encodable, discord, sent, reply, err>>

\* One caller, every input: results of every status, prober lists of every
\* length up to MaxProbers.
Next ==
    \/ \E r \in Results, enc \in BOOLEAN : Notify(Caller, r, enc)
    \/ \E ps \in ProberLists(MaxProbers), enc \in BOOLEAN : NotifyStat(Caller, ps, enc)
    \/ SendDiscordNotification(Caller)
    \/ \E resp \in Responses : ClientDo(Caller, resp)
    \/ NotifyReturn(Caller)
    \/ NotifyStatReturn(Caller)

Spec == Init /\ [][Next]_vars

\* Concurrent callers, their steps interleaved.
ConcResults == { ProbeResult(i) : i \in 1..2 }

NextConcurrent ==
    \E c \in Calls :
        \/ \E r \in ConcResults, enc \in BOOLEAN : Notify(c, r, enc)
        \/ \E ps \in ProberPrefixes(MaxConcProbers), enc \in BOOLEAN : NotifyStat(c, ps, enc)
        \/ SendDiscordNotification(c)
        \/ \E resp \in ConcResponses : ClientDo(c, resp)
        \/ NotifyReturn(c)
        \/ NotifyStatReturn(c)

SpecConcurrent == Init /\ [][NextConcurrent]_vars

\* ------------------------------------------------------------------- claims
Finished(c) == pc[c] = "done"
Returned(c) == pc[c] \in {"sent", "done"}

\* The json document of the payload call c holds.
Wire(c) == Encode(discord[c])

\* Line carries the document doc, as a string(json) argument.
HasDoc(line, doc) ==
    \E j \in DOMAIN line.args : line.args[j].type = "json" /\ line.args[j].v = doc

\* Line carries the payload in its structured form.
HasStruct(line, d) ==
    \E j \in DOMAIN line.args : line.args[j].type = "Discord" /\ line.args[j].v = d

\* Line carries the error e.
HasErr(line, e) ==
    \E j \in DOMAIN line.args : line.args[j].type = "error" /\ line.args[j].v = e

IsSuccessLine(line) ==
    /\ line.level = "info"
    /\ line.format \in { "Sent the Discord notification for %s (%s)!",
                         "Sent the Statstics to Slack Successfully!" }

\* C1: with the dry flag set, no call of Notify or NotifyStat issues an HTTP
\* request: SendDiscordNotification is never entered, nothing is put on the
\* wire and no response is ever read.
C1_DryNeverSends ==
    cfg.Dry =>
        \A c \in Calls :
            /\ sent[c] = <<>>
            /\ reply[c] = Nil
            /\ pc[c] \in {"idle", "done"}

C1_Witness ==
    /\ cfg.Dry
    /\ Finished(Caller)
    /\ kind[Caller] = "NotifyStat"
    /\ Len(input[Caller]) > 0

C3_DeliverResult ==
    \A c \in Calls :
        (~ cfg.Dry /\ Returned(c)) =>
            LET completed == reply[c] # Nil /\ reply[c].fault = Nil
            IN  /\ err[c] = Nil <=> (completed /\ reply[c].status = StatusNoContent)
                /\ (completed /\ reply[c].status # StatusNoContent) =>
                       /\ err[c].kind = "status"
                       /\ err[c].text.args = <<reply[c].status, reply[c].body>>
                /\ (reply[c] # Nil /\ reply[c].fault # Nil) => err[c] = reply[c].fault
                /\ (reply[c] = Nil /\ ~ encodable[c]) => err[c] = MarshalError
                /\ (reply[c] = Nil /\ encodable[c]) => err[c] = URLError

C3_Witness ==
    /\ ~ cfg.Dry
    /\ Returned(Caller)
    /\ reply[Caller] # Nil
    /\ reply[Caller].fault = Nil
    /\ reply[Caller].status = 200
    /\ err[Caller] # Nil

\* C4: without the dry flag a call issues at most one POST, and exactly one
\* once SendDiscordNotification has marshalled the payload and built the
\* request; a call that ended after a failed delivery has issued no second
\* request.
C4_OnePost ==
    \A c \in Calls :
        ~ cfg.Dry =>
            /\ Len(sent[c]) <= 1
            /\ \A i \in DOMAIN sent[c] :
                   /\ sent[c][i].Method = "POST"
                   /\ sent[c][i].URL = cfg.WebhookURL
                   /\ sent[c][i].Body = Wire(c)
            /\ (pc[c] \in {"waiting", "sent", "done"}
                  /\ encodable[c] /\ cfg.WebhookURL = GoodURL) => Len(sent[c]) = 1
            /\ (pc[c] \in {"sent", "done"}
                  /\ (~ encodable[c] \/ cfg.WebhookURL # GoodURL)) => Len(sent[c]) = 0

C4_Witness ==
    /\ ~ cfg.Dry
    /\ Finished(Caller)
    /\ err[Caller] # Nil
    /\ reply[Caller] # Nil
    /\ Len(sent[Caller]) = 1

\* C5: without the dry flag, a call that has SendDiscordNotification's result
\* can always return, whatever that result is; once returned it has logged
\* the success line if and only if the result was nil, and after a failure it
\* has logged exactly the error at error level and then the payload at error
\* level, as json when it marshals and in its structured form otherwise.
C5_LoggedOutcome ==
    \A c \in Calls :
        /\ (~ cfg.Dry /\ pc[c] = "sent") =>
               ENABLED (NotifyReturn(c) \/ NotifyStatReturn(c))
        /\ (~ cfg.Dry /\ Finished(c)) =>
               /\ (\E i \in DOMAIN log[c] : IsSuccessLine(log[c][i])) <=> err[c] = Nil
               /\ err[c] = Nil => Len(log[c]) = 1
               /\ err[c] # Nil =>
                      /\ Len(log[c]) = 2
                      /\ log[c][1].level = "error"
                      /\ HasErr(log[c][1], err[c])
                      /\ log[c][2].level = "error"
                      /\ IF encodable[c] THEN HasDoc(log[c][2], Wire(c))
                         ELSE HasStruct(log[c][2], discord[c])

C5_Witness ==
    /\ ~ cfg.Dry
    /\ Finished(Caller)
    /\ kind[Caller] = "NotifyStat"
    /\ err[Caller] # Nil
    /\ encodable[Caller]
    /\ Len(log[Caller]) = 2

Started(c) == pc[c] # "idle"

\* C6: the payload Notify renders has exactly one embed, green when the
\* result's status is StatusUp and red for every other status, and green and
\* red are different colors.
C6_SingleResultColor ==
    /\ Green # Red
    /\ \A c \in Calls :
           (Started(c) /\ kind[c] = "Notify") =>
               /\ Len(discord[c].Embeds) = 1
               /\ discord[c].Embeds[1].Color =
                      IF input[c].Status = StatusUp THEN Green ELSE Red

C6_Witness ==
    /\ Started(Caller)
    /\ kind[Caller] = "Notify"
    /\ input[Caller].Status = StatusUnknown
    /\ discord[Caller].Embeds[1].Color = Red

\* C7: the payload NotifyStat renders from N probers has the report content
\* line and exactly N embeds, the i-th made from the i-th prober's result,
\* each blue; blue is neither green nor red; no prober gives no embed.
C7_AggregateBlocks ==
    /\ Blue \notin {Green, Red}
    /\ \A c \in Calls :
           (Started(c) /\ kind[c] = "NotifyStat") =>
               /\ discord[c].Content = ReportContent
               /\ Len(discord[c].Embeds) = Len(input[c])
               /\ \A i \in DOMAIN input[c] :
                      /\ discord[c].Embeds[i].Title =
                             Sprintf("%s - %s", <<input[c][i].Name, input[c][i].Endpoint>>)
                      /\ discord[c].Embeds[i].Description.args[8] = input[c][i].Message
                      /\ discord[c].Embeds[i].Color = Blue

C7_Witness ==
    /\ Started(Caller)
    /\ kind[Caller] = "NotifyStat"
    /\ Len(input[Caller]) = 3
    /\ input[Caller][1] # input[Caller][3]
    /\ Len(discord[Caller].Embeds) = 3

\* C8: every payload a call renders, and every payload it puts on the wire,
\* has at most 10 embeds.
C8_AtMostTenEmbeds ==
    \A c \in Calls :
        /\ Started(c) => Len(discord[c].Embeds) <= MaxEmbeds
        /\ \A i \in DOMAIN sent[c] : Len(sent[c][i].Body.embeds) <= MaxEmbeds

\* C10: in every request body on the wire, the author object of every embed
\* has exactly the keys name, url and icon_url.
C10_AuthorWireNames ==
    \A c \in Calls :
        \A i \in DOMAIN sent[c] :
            \A k \in DOMAIN sent[c][i].Body.embeds :
                DOMAIN sent[c][i].Body.embeds[k].author = {"name", "url", "icon_url"}

\* The payload, the requests and the log lines of a call that runs alone with
\* configuration config, input in, marshal outcome enc and response resp.
RunAlone(config, k, in, enc, resp) ==
    LET d == IF k = "Notify" THEN NewDiscord(in) ELSE NewEmbeds(in)
        m == JSONMarshal(d, enc)
        r == NewRequest(config.WebhookURL, m.json)
        posted == m.err = Nil /\ r.err = Nil
        e == IF m.err # Nil THEN m.err
             ELSE IF r.err # Nil THEN r.err
             ELSE ResponseError(resp)
    IN  IF config.Dry
        THEN [ discord |-> d, sent |-> <<>>,
               log |-> IF k = "Notify" THEN DryNotify(in, enc)
                       ELSE DryNotifyStat(in, enc) ]
        ELSE [ discord |-> d,
               sent |-> IF posted THEN <<r.req>> ELSE <<>>,
               log |-> IF k = "Notify" THEN NotifyLog(config, in, d, e, enc)
                       ELSE NotifyStatLog(config, in, d, e, enc) ]

C9_Isolated ==
    \A c \in Calls :
        /\ Started(c) =>
               discord[c] = IF kind[c] = "Notify" THEN NewDiscord(input[c])
                            ELSE NewEmbeds(input[c])
        /\ Finished(c) =>
               LET alone == RunAlone(cfg, kind[c], input[c], encodable[c], reply[c])
               IN  sent[c] = alone.sent /\ log[c] = alone.log

C9_Untouched ==
    /\ cfg' = cfg
    /\ \A c \in Calls :
           Started(c) =>
               /\ kind'[c] = kind[c]
               /\ input'[c] = input[c]
               /\ encodable'[c] = encodable[c]
               /\ discord'[c] = discord[c]

\* C9: under every interleaving of concurrent calls, no step changes the
\* configuration or any started call's input and payload, each call's payload
\* is rendered from its own input alone, and a finished call has issued the
\* requests and written the lines it would have run alone on the same input
\* with the same response.
C9_IndependentCalls == [] C9_Isolated /\ [][C9_Untouched]_vars

C9_Witness ==
    \E c, d \in Calls :
        /\ c # d
        /\ Finished(c) /\ Finished(d)
        /\ kind[c] = "Notify" /\ kind[d] = "NotifyStat"
        /\ ~ cfg.Dry
        /\ err[c] = Nil /\ err[d] # Nil
        /\ reply[d] # Nil

====
